---- MODULE Spec2Model ----
(***************************************************************************)
(* The three IONQ scripts as one state machine.                            *)
(*                                                                         *)
(*   import_ionq_to_influx.py  batched import into bucket "stock_data"     *)
(*   import_ionq.py            row-at-a-time import into bucket "stocks"   *)
(*   analyze_ionq_local.py     load into the SQLite table ionq_prices      *)
(*                                                                         *)
(* Each script is a process that runs from its first line to its last, or  *)
(* to the first uncaught exception.  The CSV file, the two InfluxDB        *)
(* buckets and the SQLite table outlive the processes.                     *)
(*                                                                         *)
(* Cell values.  A CSV cell as pandas hands it to the script is an int     *)
(* ([ty |-> "int", v |-> n]), a float ([ty |-> "float", v |-> h], h the    *)
(* number of halves, so that 1.5 is h = 3) or a non-numeric string         *)
(* ([ty |-> "str", v |-> 0]).  Dates are day numbers; every Date cell is   *)
(* taken to be parseable by pd.to_datetime.                                *)
(***************************************************************************)
EXTENDS Integers, Sequences, FiniteSets, TLC

\* ------------------------------------------------------------------ bounds

\* Longest CSV whose rows are drawn freely from Rows.
MaxLen == 2
\* Script runs per behaviour.
MaxRuns == 2
\* Full batches of the longest generated CSV.
MaxBatches == 2

\* --------------------------------------------------------- program constants

\* import_ionq_to_influx.py:52   if len(points) >= 1000
BatchSize == 1000
\* range(start: -5y) of both verification queries, in days
FiveYears == 1825

Batched == "import_ionq_to_influx"
RowWise == "import_ionq"
Analyze == "analyze_ionq_local"
Scripts == {Batched, RowWise, Analyze}

\* The bucket each importer writes to and queries.
INFLUX_BUCKET == "stock_data"
STOCKS == "stocks"
Buckets == {INFLUX_BUCKET, STOCKS}
Importers == {Batched, RowWise}
BucketOf(s) == IF s = Batched THEN INFLUX_BUCKET ELSE STOCKS

\* ------------------------------------------------------------------ values

IntCell(n) == [ty |-> "int", v |-> n]
FloatCell(h) == [ty |-> "float", v |-> h]
StrCell == [ty |-> "str", v |-> 0]

\* Python float(x): an int becomes the float of the same value, a float is
\* kept, a non-numeric string raises ValueError.
FloatRaises(c) == c.ty = "str"
PyFloat(c) == IF c.ty = "int" THEN FloatCell(2 * c.v) ELSE c

\* Python int(x): an int is kept, a float is truncated toward zero, a
\* non-numeric string raises ValueError.  A negative value is accepted.
IntRaises(c) == c.ty = "str"
Truncate(h) == IF h >= 0 THEN h \div 2 ELSE -((-h) \div 2)
PyInt(c) == IF c.ty = "float" THEN IntCell(Truncate(c.v)) ELSE c

\* ------------------------------------------------------------------- rows

\* One CSV row: the columns the scripts read.
Row(d, o, h, l, c, v) ==
    [Date |-> d, Open |-> o, High |-> h, Low |-> l, Close |-> c, Volume |-> v]

\* Point("ionq_stock").time(...).field(...) of import_ionq_to_influx.py.
BatchedPointRaises(row) ==
    \/ FloatRaises(row.Open) \/ FloatRaises(row.High) \/ FloatRaises(row.Low)
    \/ FloatRaises(row.Close) \/ IntRaises(row.Volume)
\* (mutant) .field("volume", float(row['Volume'])).
BatchedPointFloatVolume(row) ==
    [measurement |-> "ionq_stock", time |-> row.Date,
     fields |-> [open |-> PyFloat(row.Open), high |-> PyFloat(row.High),
                 low |-> PyFloat(row.Low), close |-> PyFloat(row.Close),
                 volume |-> PyFloat(row.Volume)]]
BatchedPoint(row) ==
    [measurement |-> "ionq_stock", time |-> row.Date,
     fields |-> [open |-> PyFloat(row.Open), high |-> PyFloat(row.High),
                 low |-> PyFloat(row.Low), close |-> PyFloat(row.Close),
                 volume |-> PyInt(row.Volume)]]

\* Point("ionq_stock").time(...).field(...) of import_ionq.py.
RowPointRaises(row) ==
    \/ FloatRaises(row.Open) \/ FloatRaises(row.High) \/ FloatRaises(row.Low)
    \/ FloatRaises(row.Close) \/ IntRaises(row.Volume)
RowPoint(row) ==
    [measurement |-> "ionq_stock", time |-> row.Date,
     fields |-> [open |-> PyFloat(row.Open), high |-> PyFloat(row.High),
                 low |-> PyFloat(row.Low), close |-> PyFloat(row.Close),
                 volume |-> PyInt(row.Volume)]]

\* analyze_ionq_local.py: df[col].astype(float) for the four price columns,
\* df['Volume'].astype(int).  A column conversion raises when any cell of
\* the column cannot be converted.
AsTypeRaises(rows) ==
    \E k \in 1..Len(rows) :
        \/ FloatRaises(rows[k].Open) \/ FloatRaises(rows[k].High)
        \/ FloatRaises(rows[k].Low) \/ FloatRaises(rows[k].Close)
        \/ IntRaises(rows[k].Volume)
AsType(rows) ==
    [k \in 1..Len(rows) |->
        Row(rows[k].Date, PyFloat(rows[k].Open), PyFloat(rows[k].High),
            PyFloat(rows[k].Low), PyFloat(rows[k].Close), PyInt(rows[k].Volume))]

\* ------------------------------------------------------------ destination

\* An InfluxDB bucket holds one point per (measurement, timestamp): all
\* points here are of measurement "ionq_stock" with no tags and the same five
\* fields, so a bucket is a function from the timestamps it holds to the
\* field values, and writing a point whose timestamp is held replaces them.
EmptyBucket == [t \in {} |-> 0]

\* What pts[lo..hi], written in order to an empty bucket, leave: of two
\* points of one timestamp the later one.
RECURSIVE Written(_, _, _)
Written(pts, lo, hi) ==
    IF lo = hi THEN pts[lo].time :> pts[lo].fields
    ELSE LET mid == (lo + hi) \div 2
         IN  Written(pts, mid + 1, hi) @@ Written(pts, lo, mid)

\* One accepted write request carrying the points pts.
WriteBatch(b, pts) == IF pts = << >> THEN b ELSE Written(pts, 1, Len(pts)) @@ b

\* The latest of the times S within lo..hi, which holds at least one.
RECURSIVE LatestIn(_, _, _)
LatestIn(S, lo, hi) ==
    IF lo = hi THEN lo
    ELSE LET mid == (lo + hi) \div 2
         IN  IF ((mid + 1)..hi) \cap S # {} THEN LatestIn(S, mid + 1, hi)
             ELSE LatestIn(S, lo, mid)

\* from(bucket) |> range(start: -5y) |> filter(_measurement, _field == "close")
\* |> last(): the close of the latest point between now - 5y and now; no
\* record when there is none.  A point of day t is stamped at midnight and
\* the query runs during day now, so the range holds the days
\* now - FiveYears + 1 .. now.
Query(b, now) ==
    IF ((now - FiveYears + 1)..now) \cap DOMAIN b = {} THEN << >>
    ELSE LET t == LatestIn(DOMAIN b, now - FiveYears + 1, now)
         IN  << [value |-> b[t].close, time |-> t] >>

\* ------------------------------------------------------------------ state

VARIABLES
    csv,          \* the file IONQ_historical.csv
    today,        \* the day the scripts run on (the queries' now())
    requests,     \* requests InfluxDB has received
    buckets,      \* the content of each InfluxDB bucket
    table,        \* the rows of the SQLite table ionq_prices
    exit,         \* each script's last run: "none", "running", "ok", "error"
    completions,  \* runs of each script that reached its last statement
    runs,         \* script runs started
    script,       \* the script of the current (or last) process
    pc,           \* where that process is
    index,        \* position of df.iterrows(), 1-based
    points,       \* the batch buffer of import_ionq_to_influx.py
    count,        \* the counter of import_ionq.py
    client_open,  \* the InfluxDBClient is open
    conn_open,    \* the sqlite3 connection is open
    reported,     \* "Successfully imported ..." has been printed
    latest,       \* the records the verification query returned
    queries,      \* verification queries issued by this process
    writes,       \* write requests issued by this process, in order
    before        \* the process's bucket as it was when the process started

vars == <<csv, today, requests, buckets, table, exit, completions, runs, script, pc,
          index, points, count, client_open, conn_open, reported, latest,
          queries, writes, before>>

\* The CSV and the clock are the environment's.
env == <<csv, today>>

\* What the shell knows of the runs so far.
status == <<exit, completions>>

\* ----------------------------------------------------------------- inputs

\* Rows drawn freely: two days, and per day a row of floats, a row of ints
\* with a negative fractional volume, a row with a non-numeric price and a
\* row with a non-numeric volume.
Days == {1, 2}
Rows ==
    UNION {{Row(d, FloatCell(40), FloatCell(44), FloatCell(38), FloatCell(41), IntCell(7)),
            Row(d, IntCell(20), IntCell(22), IntCell(19), IntCell(21), FloatCell(-3)),
            Row(d, StrCell, FloatCell(44), FloatCell(38), FloatCell(41), IntCell(7)),
            Row(d, FloatCell(40), FloatCell(44), FloatCell(38), FloatCell(43), StrCell)}
           : d \in Days}

\* A file is given by its rows, listed, or by the rule that generates them:
\* row k of a generated file of period p is of day ((k - 1) % p) + 1, so a
\* period below the length repeats days with other prices.
Listed(rows) == [kind |-> "listed", n |-> Len(rows), rows |-> rows, period |-> 0]
Generated(n, p) == [kind |-> "generated", n |-> n, rows |-> << >>, period |-> p]
GenRow(k, p) ==
    Row(((k - 1) % p) + 1, FloatCell(40), FloatCell(44), FloatCell(38),
        FloatCell(39 + (k % 5)), IntCell(1000 + k))

ShortFiles == {Listed(rows) : rows \in UNION {[1..n -> Rows] : n \in 0..MaxLen}}

Longest == MaxBatches * BatchSize + BatchSize \div 2
LongFiles ==
    {Generated(n, n + 1) : n \in {0, 1, BatchSize - 1, BatchSize, BatchSize + 1}}
    \cup {Generated(Longest, BatchSize + BatchSize \div 2)}

\* df = pd.read_csv(...): the frame's length, its k-th row, and the frame.
NRows == csv.n
RowAt(k) == IF csv.kind = "listed" THEN csv.rows[k] ELSE GenRow(k, csv.period)
df == [k \in 1..NRows |-> RowAt(k)]

\* ------------------------------------------------------------------- Init

InitRest ==
    /\ requests = 0
    /\ buckets = [b \in Buckets |-> EmptyBucket]
    /\ table = << >>
    /\ exit = [s \in Scripts |-> "none"]
    /\ completions = [s \in Scripts |-> 0]
    /\ script = "none"
    /\ pc = "idle"
    /\ index = 1
    /\ points = << >>
    /\ count = 0
    /\ client_open = FALSE
    /\ conn_open = FALSE
    /\ reported = FALSE
    /\ latest = << >>
    /\ queries = 0
    /\ writes = << >>
    /\ before = EmptyBucket

Init ==
    /\ csv \in ShortFiles
    /\ today \in {FiveYears, FiveYears + 1}
    /\ runs = 0
    /\ InitRest

InitLong ==
    /\ csv \in LongFiles
    /\ today = csv.n + 1
    /\ runs = MaxRuns - 1
    /\ InitRest

\* ------------------------------------------------------- the destination call

\* InfluxDB accepts a request or refuses it (unreachable, timed out, ...):
\* the outcomes of one request.
Outcomes == BOOLEAN

\* (mutant) a refused write request is sent again, and accepted.
IssueRetry(pts, ok) ==
    IF ok THEN << [record |-> pts, ok |-> TRUE] >>
    ELSE << [record |-> pts, ok |-> FALSE], [record |-> pts, ok |-> TRUE] >>

\* write_api.write(bucket=..., record=pts) with write_options=SYNCHRONOUS:
\* the requests one write statement sends when the destination's answer to
\* the first is ok.  It sends one; a refusal raises.
Issue(pts, ok) == << [record |-> pts, ok |-> ok] >>

\* (mutant) the exception is caught and dropped.
RaiseSwallowed(ok, next) == next

\* Where the process is after a statement: an exception nobody catches ends
\* it (exit status 1).
Raise(ok, next) == IF ok THEN next ELSE "failed"

\* A process may start when none is running.
Idle == pc \in {"idle", "done", "failed"}

\* What a new process starts from.
Fresh(s, b) ==
    /\ Idle
    /\ runs < MaxRuns
    /\ runs' = runs + 1
    /\ script' = s
    /\ index' = 1
    /\ points' = << >>
    /\ count' = 0
    /\ reported' = FALSE
    /\ latest' = << >>
    /\ queries' = 0
    /\ writes' = << >>
    /\ before' = b

\* The process ends: its exit status is recorded.
Exit(s, next) ==
    /\ exit' = [exit EXCEPT ![s] = IF next = "failed" THEN "error"
                                   ELSE IF next = "done" THEN "ok" ELSE "running"]
    /\ completions' = [completions EXCEPT ![s] = IF next = "done" THEN @ + 1 ELSE @]

\* ------------------------------------------------ import_ionq_to_influx.py

\* (mutant) the buffer is written as soon as it holds a point.
BatchFullEveryRow(pts) == Len(pts) >= 1

\* if len(points) >= 1000
BatchFull(pts) == Len(pts) >= BatchSize

\* (mutant) the rows left when the loop ends are not written.
RemainingDropped(pts) == FALSE

\* if points:   (the rows left when the loop ends)
Remaining(pts) == pts # << >>

\* Lines 26-39: read the CSV, connect, start with an empty buffer.
StartBatched ==
    /\ Fresh(Batched, buckets[INFLUX_BUCKET])
    /\ client_open' = TRUE
    /\ conn_open' = FALSE
    /\ pc' = "loop"
    /\ Exit(Batched, "loop")
    /\ UNCHANGED <<env, requests, buckets, table>>

\* Lines 40-55: one iteration of the loop: build the row's point, append
\* it, and write the buffer when it has reached the batch size.
BatchedLoop ==
    /\ script = Batched /\ pc = "loop" /\ index <= NRows
    /\ IF BatchedPointRaises(RowAt(index))
       THEN /\ pc' = "failed"
            /\ Exit(Batched, "failed")
            /\ UNCHANGED <<index, points, requests, buckets, writes>>
       ELSE LET pts == Append(points, BatchedPoint(RowAt(index)))
            IN  IF BatchFull(pts)
                THEN \E answer \in Outcomes :
                     LET sent == Issue(pts, answer)
                         ok == sent[Len(sent)].ok
                     IN
                     /\ requests' = requests + Len(sent)
                     /\ writes' = writes \o sent
                     /\ buckets' = IF ok
                                   THEN [buckets EXCEPT ![INFLUX_BUCKET] = WriteBatch(@, pts)]
                                   ELSE buckets
                     /\ points' = IF ok THEN << >> ELSE pts
                     /\ index' = IF ok THEN index + 1 ELSE index
                     /\ pc' = Raise(ok, "loop")
                     /\ Exit(Batched, Raise(ok, "loop"))
                ELSE /\ points' = pts
                     /\ index' = index + 1
                     /\ UNCHANGED <<pc, status, requests, buckets, writes>>
    /\ UNCHANGED <<env, table, runs, script, count, client_open, conn_open,
                   reported, latest, queries, before>>

\* Lines 57-61: the loop has ended: write what is left in the buffer, then
\* report success.
BatchedFlush ==
    /\ script = Batched /\ pc = "loop" /\ index > NRows
    /\ IF Remaining(points)
           THEN \E answer \in Outcomes :
                LET sent == Issue(points, answer)
                    ok == sent[Len(sent)].ok
                IN
                /\ requests' = requests + Len(sent)
                /\ writes' = writes \o sent
                /\ buckets' = IF ok
                              THEN [buckets EXCEPT ![INFLUX_BUCKET] = WriteBatch(@, points)]
                              ELSE buckets
                /\ reported' = ok
                /\ pc' = Raise(ok, "verify")
                /\ Exit(Batched, Raise(ok, "verify"))
           ELSE /\ reported' = TRUE
                /\ pc' = "verify"
                /\ UNCHANGED <<status, requests, buckets, writes>>
    /\ UNCHANGED <<env, table, runs, script, index, points, count, client_open,
                   conn_open, latest, queries, before>>

\* The verification query of either importer: one request, whose records
\* are printed; a refusal raises.  Nothing is compared with what was written.
Verify(s, bucket) ==
    /\ script = s /\ pc = "verify"
    /\ \E ok \in Outcomes :
           /\ requests' = requests + 1
           /\ queries' = queries + 1
           /\ latest' = IF ok THEN Query(buckets[bucket], today) ELSE latest
           /\ pc' = Raise(ok, "close")
           /\ Exit(s, Raise(ok, "close"))
    /\ UNCHANGED <<env, buckets, table, runs, script, index, points, count,
                   client_open, conn_open, reported, writes, before>>

\* client.close(), the last statement of either importer.
Close(s) ==
    /\ script = s /\ pc = "close"
    /\ client_open' = FALSE
    /\ pc' = "done"
    /\ Exit(s, "done")
    /\ UNCHANGED <<env, requests, buckets, table, runs, script, index, points,
                   count, conn_open, reported, latest, queries, writes, before>>

\* Lines 63-76.
BatchedVerify == Verify(Batched, BucketOf(Batched))
\* Line 78.
BatchedClose == Close(Batched)

\* ------------------------------------------------------------ import_ionq.py

\* Lines 10-25: connect, read the CSV, count = 0.
StartRowWise ==
    /\ Fresh(RowWise, buckets[STOCKS])
    /\ client_open' = TRUE
    /\ conn_open' = FALSE
    /\ pc' = "loop"
    /\ Exit(RowWise, "loop")
    /\ UNCHANGED <<env, requests, buckets, table>>

\* Lines 26-38: one iteration: build the row's point and write it.
RowLoop ==
    /\ script = RowWise /\ pc = "loop" /\ index <= NRows
    /\ IF RowPointRaises(RowAt(index))
       THEN /\ pc' = "failed"
            /\ Exit(RowWise, "failed")
            /\ UNCHANGED <<index, count, requests, buckets, writes>>
       ELSE \E answer \in Outcomes :
            LET pts == << RowPoint(RowAt(index)) >>
                sent == Issue(pts, answer)
                ok == sent[Len(sent)].ok
            IN  /\ requests' = requests + Len(sent)
                /\ writes' = writes \o sent
                /\ buckets' = IF ok
                              THEN [buckets EXCEPT ![STOCKS] = WriteBatch(@, pts)]
                              ELSE buckets
                /\ count' = IF ok THEN count + 1 ELSE count
                /\ index' = IF ok THEN index + 1 ELSE index
                /\ pc' = Raise(ok, "loop")
                /\ Exit(RowWise, Raise(ok, "loop"))
    /\ UNCHANGED <<env, table, runs, script, points, client_open, conn_open,
                   reported, latest, queries, before>>

\* Line 40: the loop has ended: report success.
RowReport ==
    /\ script = RowWise /\ pc = "loop" /\ index > NRows
    /\ reported' = TRUE
    /\ pc' = "verify"
    /\ UNCHANGED <<env, requests, buckets, table, status, runs, script, index,
                   points, count, client_open, conn_open, latest, queries,
                   writes, before>>

\* Lines 42-55.
RowVerify == Verify(RowWise, BucketOf(RowWise))
\* Line 57.
RowClose == Close(RowWise)

\* ----------------------------------------------------- analyze_ionq_local.py

\* Lines 13-23: read the CSV and convert its columns.
StartAnalyze ==
    /\ Fresh(Analyze, EmptyBucket)
    /\ client_open' = FALSE
    /\ conn_open' = FALSE
    /\ pc' = Raise(~AsTypeRaises(df), "store")
    /\ Exit(Analyze, Raise(~AsTypeRaises(df), "store"))
    /\ UNCHANGED <<env, requests, buckets, table>>

\* Lines 26-27: sqlite3.connect, then df.to_sql('ionq_prices', conn,
\* if_exists='replace'): the table becomes the frame's rows.  The statistics
\* that follow store nothing; the process is followed no further.
AnalyzeStore ==
    /\ script = Analyze /\ pc = "store"
    /\ conn_open' = TRUE
    /\ table' = AsType(df)
    /\ pc' = "done"
    /\ Exit(Analyze, "done")
    /\ UNCHANGED <<env, requests, buckets, runs, script, index, points, count,
                   client_open, reported, latest, queries, writes, before>>

\* ------------------------------------------------------------------- Next

Next ==
    \/ StartBatched \/ BatchedLoop \/ BatchedFlush \/ BatchedVerify \/ BatchedClose
    \/ StartRowWise \/ RowLoop \/ RowReport \/ RowVerify \/ RowClose
    \/ StartAnalyze \/ AnalyzeStore

\* Short files whose rows are drawn freely.
Spec == Init /\ [][Next]_vars

\* Generated files around the batch size, each read by one process.
SpecLong == InitLong /\ [][Next]_vars

\* ------------------------------------------------------- reading the state

\* The points of the accepted write requests of the log w, in request order.
RECURSIVE Accepted(_)
Accepted(w) ==
    IF w = << >> THEN << >>
    ELSE (IF Head(w).ok THEN Head(w).record ELSE << >>) \o Accepted(Tail(w))

\* The requests of the log w that were refused.
Refused(w) == {k \in 1..Len(w) : ~w[k].ok}

\* The process has ended.
Ended == pc \in {"done", "failed"}

\* No request of the process was refused.
NoRefusal == Refused(writes) = {} /\ (pc = "failed" => queries = 0)

\* The point of a row, as the row-at-a-time importer builds it.
PointsOf(rows) == [k \in 1..Len(rows) |-> RowPoint(rows[k])]

\* A row the specification's normalizer accepts: numeric prices, and a
\* numeric volume that is not negative.
Numeric(c) == c.ty # "str"
ValidRow(row) ==
    /\ Numeric(row.Open) /\ Numeric(row.High) /\ Numeric(row.Low)
    /\ Numeric(row.Close) /\ Numeric(row.Volume) /\ row.Volume.v >= 0

\* ------------------------------------------------------------------ claims

\* C2 (as stated; refuted): after a script has run to its end a second time
\* on the same file, its destination holds what one run into an empty
\* destination leaves, and no timestamp is stored more than once - for the
\* two buckets and for the table ionq_prices.
C2_RerunSameRecordsNoDuplicate ==
    (pc = "done" /\ completions[script] >= 2) =>
        IF script = Analyze
        THEN /\ table = AsType(df)
             /\ \A i, j \in 1..Len(table) : table[i].Date = table[j].Date => i = j
        ELSE buckets[BucketOf(script)] = WriteBatch(EmptyBucket, PointsOf(df))

\* C3 (as stated; refuted): in every state each destination holds at most
\* one record per timestamp, and of two rows of one Date the later one is
\* the one a completed import leaves (last-write-wins).
C3_OneRecordPerTimestamp ==
    /\ \A i, j \in 1..Len(table) : table[i].Date = table[j].Date => i = j
    /\ \A s \in Importers : exit[s] = "ok" =>
           \A k \in 1..Len(df) :
               (\A j \in (k + 1)..Len(df) : df[j].Date # df[k].Date)
                   => buckets[BucketOf(s)][df[k].Date] = RowPoint(df[k]).fields

C5_FailedWriteAborts ==
    script \in Importers =>
        \A k \in Refused(writes) :
            /\ k = Len(writes)
            /\ pc = "failed"
            /\ queries = 0
            /\ ~reported
            /\ buckets[BucketOf(script)]
                   = WriteBatch(before, Accepted(SubSeq(writes, 1, k - 1)))

\* C5 witness: the row-at-a-time import of a second run fails on its second
\* write, the first one accepted.
C5_Witness ==
    /\ script = RowWise /\ pc = "failed"
    /\ Len(writes) = 2 /\ writes[1].ok /\ ~writes[2].ok
    /\ before # EmptyBucket
    /\ buckets[STOCKS] # before

\* C6 (as stated; refuted): an importer that wrote records ends in success
\* only if its one verification query returned a value equal to the close of
\* the last record it wrote.
C6_SuccessOnlyIfVerified ==
    (script \in Importers /\ pc = "done" /\ Accepted(writes) # << >>) =>
        /\ queries = 1
        /\ latest # << >>
        /\ latest[1].value = Accepted(writes)[Len(Accepted(writes))].fields.close

\* C7 (as stated; refuted): an importer's process never ends with its
\* InfluxDB client still open.
C7_ClientClosedOnEveryExit ==
    (script \in Importers /\ Ended) => ~client_open

\* C8 (as stated; refuted): in a run of an importer that the destination
\* never refused, every valid row of the file is written, no invalid row is
\* written, and the run ends in failure when the file holds an invalid row.
C8_BadRowsSkipped ==
    (script \in Importers /\ Ended /\ NoRefusal) =>
        /\ \A k \in 1..Len(df) : ValidRow(df[k]) =>
               \E j \in 1..Len(Accepted(writes)) : Accepted(writes)[j] = RowPoint(df[k])
        /\ \A j \in 1..Len(Accepted(writes)) :
               \E k \in 1..Len(df) : ValidRow(df[k]) /\ Accepted(writes)[j] = RowPoint(df[k])
        /\ (\E k \in 1..Len(df) : ~ValidRow(df[k])) => pc = "failed"

\* C10: when both importers have run to their end on the file, the two
\* buckets hold the same points; and at every moment of an importer's run
\* the points it has had accepted are those of a prefix of the file, in file
\* order, and its bucket holds what it held at the start plus that prefix.
C10_ImportersEquivalent ==
    /\ (exit[Batched] = "ok" /\ exit[RowWise] = "ok")
           => buckets[INFLUX_BUCKET] = buckets[STOCKS]
    /\ script \in Importers =>
           LET n == Len(Accepted(writes))
           IN  /\ n <= Len(df)
               /\ Accepted(writes) = PointsOf(SubSeq(df, 1, n))
               /\ buckets[BucketOf(script)]
                      = WriteBatch(before, PointsOf(SubSeq(df, 1, n)))
               /\ pc \in {"verify", "close", "done"} => n = Len(df)

\* C10 witness: both importers have run to their end on a file of two
\* different rows of one day.
C10_Witness ==
    /\ exit[Batched] = "ok" /\ exit[RowWise] = "ok"
    /\ Len(df) = 2 /\ df[1].Date = df[2].Date /\ df[1] # df[2]
    /\ buckets[STOCKS] # EmptyBucket

\* The points of the first n rows, as the batched importer builds them.
BatchedPointsOf(n) == [k \in 1..n |-> BatchedPoint(RowAt(k))]

\* C1: the batched importer never sends an empty batch, every batch it sends
\* but the last holds exactly BatchSize records, and a run over N rows that
\* reaches the verification has sent exactly ceil(N / BatchSize) batches, the
\* last of N - BatchSize * (ceil(N / BatchSize) - 1) records.
C1_BatchBoundary ==
    script = Batched =>
        /\ \A k \in 1..Len(writes) :
               /\ Len(writes[k].record) > 0
               /\ Len(writes[k].record) <= BatchSize
               /\ k < Len(writes) => Len(writes[k].record) = BatchSize
        /\ pc \in {"verify", "close", "done"} =>
               LET N == NRows
                   n == (N + BatchSize - 1) \div BatchSize
               IN  /\ Len(writes) = n
                   /\ n > 0 => Len(writes[n].record) = N - BatchSize * (n - 1)

\* C1 witness: BatchSize + 1 rows have been imported in two batches, a full
\* one and a last one of the one row left.
C1_Witness ==
    /\ script = Batched /\ pc = "done"
    /\ NRows = BatchSize + 1
    /\ Len(writes) = 2
    /\ Len(writes[1].record) = BatchSize
    /\ Len(writes[2].record) = 1

\* C9: in a run of the batched importer that met no failure, at every point
\* of the loop the points accepted so far followed by the buffered ones are
\* the points of the rows read so far, in file order, and the buffer holds
\* fewer than BatchSize points; once the loop and the final flush are over,
\* the batches sent, concatenated in request order, are the points of all
\* rows of the file, each once.
C9_ExactlyOnceInOrder ==
    (script = Batched /\ Refused(writes) = {}) =>
        /\ pc = "loop" =>
               /\ Accepted(writes) \o points = BatchedPointsOf(index - 1)
               /\ Len(points) < BatchSize
        /\ pc \in {"verify", "close", "done"} =>
               Accepted(writes) = BatchedPointsOf(NRows)

\* C9 witness: the loop has written a full batch, the final flush has
\* written the row buffered after it, and the two batches together are the
\* points of the file's rows.
C9_Witness ==
    /\ script = Batched /\ pc = "verify"
    /\ Refused(writes) = {}
    /\ NRows > BatchSize
    /\ Accepted(writes) = BatchedPointsOf(NRows)

====
